---- MODULE Spec2Model ----
(***************************************************************************)
(* Model of the persistent translation-pipeline pool of apertium-apy       *)
(* (servlet.py): BaseHandler's class-level pools, TranslateHandler's       *)
(* getPairOrError / getPipeline / translateAndRespond / cleanPairs, and    *)
(* the /translate, /translateRaw and /translatePage handlers running as    *)
(* coroutines on one IOLoop.  A coroutine runs without interruption from   *)
(* one yield to the next, so every action below is one such segment.       *)
(*                                                                         *)
(* translation.Pipeline (users, useCount, lastUsage, lock, translate) and  *)
(* util.toAlpha3Code are imported by servlet.py but are not part of it;    *)
(* their definitions here follow the written specification.                *)
(***************************************************************************)
EXTENDS Integers, Sequences, FiniteSets, Bags, TLC

(* ------------------------------ bounds -------------------------------- *)
\* number of request handlers that can be in flight at the same time
NumReqs == 2
\* total number of requests issued in one behaviour
MaxIssued == 3
\* the wall clock runs from 0 to MaxTime
MaxTime == 2

Reqs == 1..NumReqs

(* --------------------------- request inputs --------------------------- *)
\* strings are sequences of one-character strings
LangPairs ==
    { <<"e","n","|","e","s">>,          \* installed, given with 2-letter codes
      <<"s","p","a","|","e","n","g">>,  \* installed
      <<"e","n","g">>,                  \* malformed: one code
      <<"e","n","g","|","f","r","a">> } \* well-formed, not installed

Texts == { <<"a">> }

\* requests for one pair with two different texts
OnePair == { <<"e","n","|","e","s">> }
TwoTexts == { <<"a">>, <<"b">> }

(* --------------------------- configuration ---------------------------- *)
\* longest translated text given to maybeStripMarks
MaxTextLen == 4

\* translated texts: a mark, a letter and two characters that end a token
MarkChars == { "*", "a", " ", "." }
MarkTexts == UNION { [1..n -> MarkChars] : n \in 0..MaxTextLen }

\* values of the markUnknown argument
MarkArgs == { "yes", "true", "1", "no" }

\* texts of two lengths, and values of the `requests` argument of /stats
StatTexts == { <<"a">>, <<"b","b">> }
StatArgs == { -1, 0, 1, 2 }

\* one pair named with 2-letter codes, with 3-letter codes and with both
CodePairs ==
    { <<"e","n","|","e","s">>,
      <<"e","n","g","|","s","p","a">>,
      <<"e","n","g","|","e","s">> }

\* the command-line settings copied into BaseHandler by setupHandler
Configs ==
    [ max_pipes_per_pair  : {1},
      min_pipes_per_pair  : {0},
      max_users_per_pipe  : {0},
      max_idle_secs       : {0},
      restart_pipe_after  : {0, 1},
      timeout             : {1},
      STAT_PERIOD_MAX_AGE : {1} ]

\* the settings of the behaviours with one pair: -i 0, 1 or 2 (the command
\* line takes any int for --max-pipes-per-pair), -u 0 or 1
OnePairConfigs ==
    [ max_pipes_per_pair  : {0, 1, 2},
      min_pipes_per_pair  : {0},
      max_users_per_pipe  : {0, 1},
      max_idle_secs       : {0},
      restart_pipe_after  : {1},
      timeout             : {1},
      STAT_PERIOD_MAX_AGE : {1} ]

\* the settings of the behaviours that watch cleanPairs: a floor of 0 or 1
\* pipes per pair, idle shutdown off or after 1 second
CleanConfigs ==
    [ max_pipes_per_pair  : {2},
      min_pipes_per_pair  : {0, 1},
      max_users_per_pipe  : {0},
      max_idle_secs       : {0, 1},
      restart_pipe_after  : {1},
      timeout             : {1},
      STAT_PERIOD_MAX_AGE : {1} ]

VARIABLES
    cfg,                \* the settings of this run (never change)
    now,                \* time.time() / datetime.now()
    pipelines,          \* BaseHandler.pipelines: pair -> heap (list) of pipes
    pipelines_holding,  \* BaseHandler.pipelines_holding, as a bag of pipes
    pipeline_cmds,      \* BaseHandler.pipeline_cmds: pair -> ParsedMode
    useCount,           \* BaseHandler.stats['useCount']: pair -> count
    timing,             \* BaseHandler.stats['timing']
    pipe,               \* the Pipeline objects made so far: id -> fields
    req,                \* the request handlers in flight
    response,           \* the response sent in the step just taken, if any
    issued,             \* number of requests received so far
    missingFreqsDb,     \* the global missing-token store and what it was told
    marks,              \* the last call of maybeStripMarks and its result
    parsed              \* the mode files parseModeFile read in the step just taken

vars == << cfg, now, pipelines, pipelines_holding, pipeline_cmds, useCount,
           timing, pipe, req, response, issued, missingFreqsDb, marks,
           parsed >>

max_pipes_per_pair  == cfg.max_pipes_per_pair
min_pipes_per_pair  == cfg.min_pipes_per_pair
max_users_per_pipe  == cfg.max_users_per_pipe
max_idle_secs       == cfg.max_idle_secs
restart_pipe_after  == cfg.restart_pipe_after
timeout             == cfg.timeout
STAT_PERIOD_MAX_AGE == cfg.STAT_PERIOD_MAX_AGE

(* ------------------------- installed pairs ---------------------------- *)
\* '%s-%s' % (l1, l2)
PairName(l1, l2) == l1 \o <<"-">> \o l2

\* BaseHandler.pairs after setupHandler: 'l1-l2' -> mode file path
pairs ==
    ( PairName(<<"e","n","g">>, <<"s","p","a">>) :> "eng-spa.mode" ) @@
    ( PairName(<<"s","p","a">>, <<"e","n","g">>) :> "spa-eng.mode" )

\* util.toAlpha3Code: a 2-letter code becomes its 3-letter code, any other
\* string is returned as it is
toAlpha3Code(code) ==
    IF code = <<"e","n">> THEN <<"e","n","g">>
    ELSE IF code = <<"e","s">> THEN <<"s","p","a">>
    ELSE code

\* str.split('|')
RECURSIVE SplitBar(_)
SplitBar(s) ==
    IF s = <<>> THEN << <<>> >>
    ELSE LET rest == SplitBar(Tail(s)) IN
         IF Head(s) = "|" THEN << <<>> >> \o rest
         ELSE << <<Head(s)>> \o Head(rest) >> \o Tail(rest)

NoPair == <<>>
NoPipe == 0
NoText == <<>>

(* ------------------------------ Pipeline ------------------------------ *)
\* translation.parseModeFile(path)
parseModeFile(path) == << "ParsedMode", path >>

\* a Pipeline right after translation.makePipeline(cmds)
NewPipeline(cmds) ==
    [ cmds      |-> cmds,
      users     |-> 0,
      useCount  |-> 0,
      lastUsage |-> 0,
      state     |-> "Ready",
      lock      |-> 0,
      stream    |-> <<>> ]

\* what the pipeline's processes put on stdout for one framed input
Translation(cmds, text) == [ cmds |-> cmds, text |-> text ]

\* Pipeline.__lt__, the order heapq keeps: fewer users first, ties broken by
\* the older lastUsage
PipeLess(P, a, b) ==
    \/ P[a].users < P[b].users
    \/ P[a].users = P[b].users /\ P[a].lastUsage < P[b].lastUsage

(* ------------------------------- heapq -------------------------------- *)
\* positions are 0-based as in heapq; heap[i + 1] is Python's heap[i]
RECURSIVE SiftDownLoop(_, _, _, _, _)
SiftDownLoop(P, heap, startpos, pos, newitem) ==
    IF pos > startpos
    THEN LET parentpos == (pos - 1) \div 2
             parent    == heap[parentpos + 1]
         IN  IF PipeLess(P, newitem, parent)
             THEN SiftDownLoop(P, [heap EXCEPT ![pos + 1] = parent],
                               startpos, parentpos, newitem)
             ELSE [heap EXCEPT ![pos + 1] = newitem]
    ELSE [heap EXCEPT ![pos + 1] = newitem]

siftdown(P, heap, startpos, pos) ==
    SiftDownLoop(P, heap, startpos, pos, heap[pos + 1])

RECURSIVE SiftUpLoop(_, _, _, _, _, _)
SiftUpLoop(P, heap, startpos, pos, childpos, newitem) ==
    IF childpos < Len(heap)
    THEN LET rightpos == childpos + 1
             c == IF rightpos < Len(heap)
                     /\ ~PipeLess(P, heap[childpos + 1], heap[rightpos + 1])
                  THEN rightpos ELSE childpos
         IN  SiftUpLoop(P, [heap EXCEPT ![pos + 1] = heap[c + 1]],
                        startpos, c, 2 * c + 1, newitem)
    ELSE siftdown(P, [heap EXCEPT ![pos + 1] = newitem], startpos, pos)

siftup(P, heap, pos) ==
    SiftUpLoop(P, heap, pos, pos, 2 * pos + 1, heap[pos + 1])

heappush(P, heap, item) ==
    siftdown(P, Append(heap, item), 0, Len(heap))

RECURSIVE HeapifyFrom(_, _, _)
HeapifyFrom(P, x, i) ==
    IF i < 0 THEN x ELSE HeapifyFrom(P, siftup(P, x, i), i - 1)

heapify(P, x) == HeapifyFrom(P, x, (Len(x) \div 2) - 1)

(* --------------------------- TranslateHandler ------------------------- *)
EmptyMap == [x \in {} |-> 0]

\* dict.get(key, default)
Get(d, key, default) == IF key \in DOMAIN d THEN d[key] ELSE default

\* d[key] = value
Put(d, key, value) ==
    [k \in DOMAIN d \cup {key} |-> IF k = key THEN value ELSE d[k]]

\* a notePairUsage that forgets the count it had
notePairUsage_Reset(U, pair) == Put(U, pair, 1)

notePairUsage(U, pair) == Put(U, pair, 1 + Get(U, pair, 0))

\* the characters that end an unknown-word token: the class [^.,;:\t\* ] of
\* unknownMarkRE, negated
MarkStops_NoStar == { ".", ",", ";", ":", "\t", " " }

MarkStops == { ".", ",", ";", ":", "\t", "*", " " }

\* the last position of the longest run of characters outside MarkStops that
\* starts at k (the greedy + of unknownMarkRE)
RECURSIVE RunEnd(_, _)
RunEnd(s, k) ==
    IF k < Len(s) /\ s[k + 1] \notin MarkStops THEN RunEnd(s, k + 1) ELSE k

\* where the match of unknownMarkRE that starts at position i ends, 0 when
\* the expression does not match at i
MatchEnd(s, i) ==
    IF s[i] = "*" /\ i < Len(s) /\ s[i + 1] \notin MarkStops
    THEN RunEnd(s, i + 1)
    ELSE 0

\* re.sub(unknownMarkRE, r'\1', s), scanning from position i
RECURSIVE SubFrom(_, _)
SubFrom(s, i) ==
    IF i > Len(s) THEN << >>
    ELSE LET j == MatchEnd(s, i) IN
         IF j = 0 THEN << s[i] >> \o SubFrom(s, i + 1)
         ELSE SubSeq(s, i + 1, j) \o SubFrom(s, j + 1)

\* re.findall(unknownMarkRE, s), scanning from position i
RECURSIVE FindAllFrom(_, _)
FindAllFrom(s, i) ==
    IF i > Len(s) THEN << >>
    ELSE LET j == MatchEnd(s, i) IN
         IF j = 0 THEN FindAllFrom(s, i + 1)
         ELSE << SubSeq(s, i + 1, j) >> \o FindAllFrom(s, j + 1)

\* the store after noteUnknownTokens("%s-%s" % pair, text): one noteUnknown
\* call for each token when a store is configured
noteUnknownTokens(db, pairname, text) ==
    IF db.configured
    THEN LET tokens == FindAllFrom(text, 1) IN
         [db EXCEPT !.noted = @ \o [k \in 1..Len(tokens) |-> << tokens[k], pairname >>]]
    ELSE db

\* markUnknown in ['yes', 'true', '1']
markUnknownFlag(arg) == arg \in { "yes", "true", "1" }

\* what maybeStripMarks returns
maybeStripMarks(markUnknown, pair, translated) ==
    IF markUnknown THEN translated ELSE SubFrom(translated, 1)

\* a logAfterTranslation that does not look at the response status
logAfterTranslation_Always(T, before, length, status) ==
    LET oldest == IF T # <<>> THEN T[1][1] ELSE now
        T1     == IF now - oldest > STAT_PERIOD_MAX_AGE THEN Tail(T) ELSE T
    IN  Append(T1, << before, now, length >>)

\* the timing list after logAfterTranslation(before, length) of a request
\* whose response status is `status`
logAfterTranslation(T, before, length, status) ==
    IF status = 200
    THEN LET oldest == IF T # <<>> THEN T[1][1] ELSE now
             T1     == IF now - oldest > STAT_PERIOD_MAX_AGE THEN Tail(T) ELSE T
         IN  Append(T1, << before, now, length >>)
    ELSE T

\* the pair, or NoPair after send_error(400)
getPairOrError(langpair) ==
    LET parts == SplitBar(langpair)
        codes == [i \in 1..Len(parts) |-> toAlpha3Code(parts[i])]
    IN  IF Len(codes) # 2 THEN NoPair
        ELSE IF PairName(codes[1], codes[2]) \notin DOMAIN pairs THEN NoPair
        ELSE << codes[1], codes[2] >>

shouldStartPipe(PL, P, pair) ==
    LET pipes == Get(PL, pair, <<>>) IN
    IF pipes = <<>> THEN TRUE
    ELSE LET min_p == pipes[1] IN
         Len(pipes) < max_pipes_per_pair /\ P[min_p].users > max_users_per_pipe

\* the ways starting a pipeline for `pair` can end
SpawnOutcomes(C, pair) ==
    {"ok", "SpawnError"} \cup (IF pair \in DOMAIN C THEN {} ELSE {"ParseError"})

\* the pipeline_cmds cache after getPipeCmds(l1, l2) returned
getPipeCmds(C, pair) ==
    IF pair \notin DOMAIN C
    THEN Put(C, pair, parseModeFile(pairs[PairName(pair[1], pair[2])]))
    ELSE C

\* a getPipeCmds that reads the mode file on every call
ParseCalls_Always(C, pair) == << pairs[PairName(pair[1], pair[2])] >>

\* the mode files getPipeCmds(l1, l2) hands to translation.parseModeFile
ParseCalls(C, pair) ==
    IF pair \notin DOMAIN C THEN << pairs[PairName(pair[1], pair[2])] >> ELSE << >>

\* a getPipeline that turns the request away when no pipe can be started and
\* the head of the pool is over max_users_per_pipe
getPipeline_Refuse(PL, P, C, pair, outcome) ==
    IF shouldStartPipe(PL, P, pair)
    THEN LET PL1 == IF pair \notin DOMAIN PL THEN Put(PL, pair, <<>>) ELSE PL
             C1  == getPipeCmds(C, pair)
             p   == Len(P) + 1
             P1  == Append(P, NewPipeline(C1[pair]))
             PL2 == Put(PL1, pair, heappush(P1, PL1[pair], p))
         IN  IF outcome = "ParseError"
             THEN [pipelines |-> PL1, pipe |-> P, cmds |-> C, result |-> NoPipe,
                   parsed |-> ParseCalls(C, pair)]
             ELSE IF outcome = "SpawnError"
             THEN [pipelines |-> PL1, pipe |-> P, cmds |-> C1, result |-> NoPipe,
                   parsed |-> ParseCalls(C, pair)]
             ELSE [pipelines |-> PL2, pipe |-> P1, cmds |-> C1,
                   result |-> PL2[pair][1], parsed |-> ParseCalls(C, pair)]
    ELSE [pipelines |-> PL, pipe |-> P, cmds |-> C,
          result |-> IF P[PL[pair][1]].users > max_users_per_pipe
                     THEN NoPipe ELSE PL[pair][1],
          parsed |-> << >>]

\* a getPipeline that has already pushed the pipe when its start fails
getPipeline_PushFirst(PL, P, C, pair, outcome) ==
    IF shouldStartPipe(PL, P, pair)
    THEN LET PL1 == IF pair \notin DOMAIN PL THEN Put(PL, pair, <<>>) ELSE PL
             C1  == getPipeCmds(C, pair)
             p   == Len(P) + 1
             P1  == Append(P, NewPipeline(C1[pair]))
             PL2 == Put(PL1, pair, heappush(P1, PL1[pair], p))
         IN  IF outcome = "ParseError"
             THEN [pipelines |-> PL1, pipe |-> P, cmds |-> C, result |-> NoPipe,
                   parsed |-> ParseCalls(C, pair)]
             ELSE IF outcome = "SpawnError"
             THEN [pipelines |-> PL2, pipe |-> P1, cmds |-> C1, result |-> NoPipe,
                   parsed |-> ParseCalls(C, pair)]
             ELSE [pipelines |-> PL2, pipe |-> P1, cmds |-> C1,
                   result |-> PL2[pair][1], parsed |-> ParseCalls(C, pair)]
    ELSE [pipelines |-> PL, pipe |-> P, cmds |-> C, result |-> PL[pair][1],
          parsed |-> << >>]

\* getPipeline(pair): the pools, pipeline objects and mode cache it leaves and
\* the pipeline it returns (NoPipe when it raised)
getPipeline(PL, P, C, pair, outcome) ==
    IF shouldStartPipe(PL, P, pair)
    THEN LET PL1 == IF pair \notin DOMAIN PL THEN Put(PL, pair, <<>>) ELSE PL
             C1  == getPipeCmds(C, pair)
             p   == Len(P) + 1
             P1  == Append(P, NewPipeline(C1[pair]))
             PL2 == Put(PL1, pair, heappush(P1, PL1[pair], p))
         IN  IF outcome = "ParseError"
             THEN [pipelines |-> PL1, pipe |-> P, cmds |-> C, result |-> NoPipe,
                   parsed |-> ParseCalls(C, pair)]
             ELSE IF outcome = "SpawnError"
             THEN [pipelines |-> PL1, pipe |-> P, cmds |-> C1, result |-> NoPipe,
                   parsed |-> ParseCalls(C, pair)]
             ELSE [pipelines |-> PL2, pipe |-> P1, cmds |-> C1,
                   result |-> PL2[pair][1], parsed |-> ParseCalls(C, pair)]
    ELSE [pipelines |-> PL, pipe |-> P, cmds |-> C, result |-> PL[pair][1],
          parsed |-> << >>]

\* a cleanable that restarts a pipe one request late
cleanable_Late(P, i, pair, p) ==
    IF P[p].useCount > restart_pipe_after + 1 THEN TRUE
    ELSE IF /\ i >= min_pipes_per_pair
            /\ max_idle_secs # 0
            /\ now - P[p].lastUsage > max_idle_secs
    THEN TRUE
    ELSE FALSE

\* a cleanable that restarts a pipe one request early
cleanable_Early(P, i, pair, p) ==
    IF P[p].useCount >= restart_pipe_after THEN TRUE
    ELSE IF /\ i >= min_pipes_per_pair
            /\ max_idle_secs # 0
            /\ now - P[p].lastUsage > max_idle_secs
    THEN TRUE
    ELSE FALSE

\* a cleanable whose idle rule does not look at the index of the pipe
cleanable_AnyIndex(P, i, pair, p) ==
    IF P[p].useCount > restart_pipe_after THEN TRUE
    ELSE IF /\ max_idle_secs # 0
            /\ now - P[p].lastUsage > max_idle_secs
    THEN TRUE
    ELSE FALSE

cleanable(P, i, pair, p) ==
    IF P[p].useCount > restart_pipe_after THEN TRUE
    ELSE IF /\ i >= min_pipes_per_pair
            /\ max_idle_secs # 0
            /\ now - P[p].lastUsage > max_idle_secs
    THEN TRUE
    ELSE FALSE

to_clean(P, PL, pair) ==
    { PL[pair][i + 1] : i \in { j \in 0..(Len(PL[pair]) - 1) :
                                  cleanable(P, j, pair, PL[pair][j + 1]) } }

\* a cleanPairs that leaves the pipes it moved to the holding area in the pool
CleanedPool_KeepAll(P, PL, pair) == heapify(P, PL[pair])

\* pipes[:] = [p for p in pipes if p not in to_clean]; heapq.heapify(pipes)
CleanedPool(P, PL, pair) ==
    LET Keep(p) == p \notin to_clean(P, PL, pair)
    IN  heapify(P, SelectSeq(PL[pair], Keep))

\* pipelines_holding after the += to_clean of every pair in `todo`
RECURSIVE HoldingPlus(_, _, _, _)
HoldingPlus(H, P, PL, todo) ==
    IF todo = {} THEN H
    ELSE LET pair == CHOOSE x \in todo : TRUE
         IN  HoldingPlus(H (+) SetToBag(to_clean(P, PL, pair)), P, PL,
                         todo \ {pair})

\* a cleanPairs that never drops a pipe from the holding area
StillUsed_KeepAll(H, P) == H

\* pipelines_holding[:] = [p for p in pipelines_holding if p.users > 0]
StillUsed(H, P) ==
    [p \in { x \in DOMAIN H : P[x].users > 0 } |-> H[p]]

\* a cleanPairs that looks at the pool of one pair only
cleanPairs_OnePair(PL, H, P) ==
    LET first == CHOOSE pair \in DOMAIN PL : TRUE IN
    [ pipelines |-> [pair \in DOMAIN PL |->
                        IF pair = first THEN CleanedPool(P, PL, pair)
                        ELSE PL[pair]],
      holding   |-> StillUsed(HoldingPlus(H, P, PL, {first}), P) ]

cleanPairs(PL, H, P) ==
    [ pipelines |-> [pair \in DOMAIN PL |-> CleanedPool(P, PL, pair)],
      holding   |-> StillUsed(HoldingPlus(H, P, PL, DOMAIN PL), P) ]

(* --------------------- Pipeline.translate (segments) ------------------ *)
\* entering the scoped acquisition: one more user, lastUsage is now
PipelineEnter(P, p) ==
    [P EXCEPT ![p].users = @ + 1, ![p].lastUsage = now]

\* a pipeline whose lock never makes a caller wait
LockFree_Always(P, p) == TRUE

\* the per-pipe lock can be taken
LockFree(P, p) == P[p].lock = 0

\* status of the response after translate raised `err`
ErrorStatus(err) == IF err = "DeadlineExceeded" THEN 408 ELSE 500

(* ------------------------------- Init --------------------------------- *)
\* a handler slot with no request
IdleReq ==
    [ pc         |-> "idle",
      langpair   |-> <<>>,
      q          |-> NoText,
      pair       |-> NoPair,
      pipeline   |-> NoPipe,
      before     |-> 0,
      translated |-> <<>> ]

NoResponse ==
    [ status |-> 0, langpair |-> <<>>, q |-> NoText, translatedText |-> <<>>,
      raised |-> FALSE ]

\* the global missingFreqsDb: None unless --missing-freqs is given; `noted` is
\* the noteUnknown calls it has received
NoDb == [ configured |-> FALSE, noted |-> << >> ]
EmptyDb == [ configured |-> TRUE, noted |-> << >> ]

\* no call of maybeStripMarks yet
NoCall ==
    [ markUnknown |-> "yes", pair |-> NoPair, translated |-> << >>,
      result |-> << >>, done |-> FALSE ]

InitWith(settings) ==
    /\ cfg \in settings
    /\ now = 0
    /\ pipelines = EmptyMap
    /\ pipelines_holding = EmptyBag
    /\ pipeline_cmds = EmptyMap
    /\ parsed = << >>
    /\ useCount = EmptyMap
    /\ timing = << >>
    /\ pipe = << >>
    /\ req = [r \in Reqs |-> IdleReq]
    /\ response = NoResponse
    /\ issued = 0
    /\ missingFreqsDb = NoDb
    /\ marks = NoCall

Tick ==
    /\ now < MaxTime
    /\ now' = now + 1
    /\ response' = NoResponse
    /\ parsed' = << >>
    /\ UNCHANGED << cfg, marks, missingFreqsDb, pipelines, pipelines_holding, pipeline_cmds,
                    useCount, timing, pipe, req, issued >>

(* ------------------------------ handlers ------------------------------ *)
\* the response a handler sends; `raised` tells whether an exception left the
\* handler's get in the step
Reply(R, status, text) ==
    [ status |-> status, langpair |-> R.langpair, q |-> R.q,
      translatedText |-> text, raised |-> FALSE ]

\* the error response of handler R after send_error(status): status and
\* explanation, no text
ErrorReply(R, status) ==
    [ status |-> status, langpair |-> R.langpair, q |-> NoText,
      translatedText |-> <<>>, raised |-> FALSE ]

\* an exception leaves the handler's get: the framework logs it, and answers
\* with `status` unless a response with status `sent` has already been
\* finished (sent = 0: none yet)
Uncaught(R, sent, status) ==
    [ ErrorReply(R, IF sent # 0 THEN sent ELSE status) EXCEPT !.raised = TRUE ]

\* the pipelines some pool, the holding area or a handler in flight refers to
Referenced(PL, H, R) ==
    UNION { { PL[pair][i] : i \in 1..Len(PL[pair]) } : pair \in DOMAIN PL }
    \cup BagToSet(H)
    \cup { R[r].pipeline : r \in Reqs }

\* a Pipeline object nothing refers to any more has been destroyed
Gone == [NewPipeline(<<>>) EXCEPT !.state = "Gone"]

Destroy(P, PL, H, R) ==
    [p \in DOMAIN P |-> IF p \in Referenced(PL, H, R) THEN P[p] ELSE Gone]

\* a new request is taken by the first handler slot that is not in flight
Free(r) ==
    /\ req[r].pc = "idle"
    /\ \A s \in Reqs : s < r => req[s].pc # "idle"

\* a translateAndRespond that notes the usage under the codes as the request
\* gave them
BeginTranslate_RawCount(r, R, P, p, text) ==
    /\ useCount' = notePairUsage(useCount, << SplitBar(R.langpair)[1],
                                              SplitBar(R.langpair)[2] >>)
    /\ pipe' = PipelineEnter(P, p)
    /\ req' = [req EXCEPT ![r] = [R EXCEPT !.pipeline = p, !.q = text,
                                           !.before = now, !.pc = "waitlock"]]

\* translateAndRespond up to its yield: notePairUsage, logBeforeTranslation and
\* the call of pipeline.translate, which enters the pipeline and waits for
\* its lock
BeginTranslate(r, R, P, p, text) ==
    /\ useCount' = notePairUsage(useCount, R.pair)
    /\ pipe' = PipelineEnter(P, p)
    /\ req' = [req EXCEPT ![r] = [R EXCEPT !.pipeline = p, !.q = text,
                                           !.before = now, !.pc = "waitlock"]]

\* TranslateHandler.get and TranslateRawHandler.get (the same statements) up
\* to the first yield
TranslateGet(r, langpair, q) ==
    /\ Free(r)
    /\ issued < MaxIssued
    /\ issued' = issued + 1
    /\ LET pair == getPairOrError(langpair)
           R    == [IdleReq EXCEPT !.langpair = langpair, !.q = q, !.pair = pair]
       IN  IF pair = NoPair
           THEN /\ response' = ErrorReply(R, 400)
                /\ parsed' = << >>
                /\ timing' = logAfterTranslation(timing, now, Len(q), 400)
                /\ UNCHANGED << pipelines, pipelines_holding, pipeline_cmds,
                                useCount, pipe, req >>
           ELSE \E outcome \in SpawnOutcomes(pipeline_cmds, pair) :
                LET g == getPipeline(pipelines, pipe, pipeline_cmds, pair, outcome)
                IN  /\ pipelines' = g.pipelines
                    /\ pipeline_cmds' = g.cmds
                    /\ parsed' = g.parsed
                    /\ IF g.result = NoPipe
                       THEN /\ response' = Uncaught(R, 0, 500)
                            /\ pipe' = g.pipe
                            /\ UNCHANGED << useCount, req >>
                       ELSE /\ BeginTranslate(r, R, g.pipe, g.result, q)
                            /\ response' = NoResponse
                    /\ UNCHANGED << pipelines_holding, timing >>
    /\ UNCHANGED << cfg, marks, missingFreqsDb, now >>

\* TranslatePageHandler.get up to yield http_client.fetch(request)
TranslatePageGet(r, langpair) ==
    /\ Free(r)
    /\ issued < MaxIssued
    /\ issued' = issued + 1
    /\ LET pair == getPairOrError(langpair)
           R    == [IdleReq EXCEPT !.langpair = langpair, !.pair = pair]
       IN  IF pair = NoPair
           THEN /\ response' = ErrorReply(R, 400)
                /\ parsed' = << >>
                /\ timing' = logAfterTranslation(timing, now, -1, 400)
                /\ UNCHANGED << pipelines, pipelines_holding, pipeline_cmds,
                                pipe, req >>
           ELSE \E outcome \in SpawnOutcomes(pipeline_cmds, pair) :
                LET g == getPipeline(pipelines, pipe, pipeline_cmds, pair, outcome)
                IN  /\ pipelines' = g.pipelines
                    /\ pipeline_cmds' = g.cmds
                    /\ parsed' = g.parsed
                    /\ pipe' = g.pipe
                    /\ IF g.result = NoPipe
                       THEN /\ response' = Uncaught(R, 0, 500)
                            /\ UNCHANGED req
                       ELSE /\ req' = [req EXCEPT ![r] =
                                         [R EXCEPT !.pc = "fetching",
                                                   !.pipeline = g.result]]
                            /\ response' = NoResponse
                    /\ UNCHANGED << pipelines_holding, timing >>
    /\ UNCHANGED << cfg, marks, missingFreqsDb, now, useCount >>

\* the fetch returned: htmlToText, then translateAndRespond up to its yield
FetchDone(r, text) ==
    /\ req[r].pc = "fetching"
    /\ response' = NoResponse
    /\ BeginTranslate(r, req[r], pipe, req[r].pipeline, text)
    /\ parsed' = << >>
    /\ UNCHANGED << cfg, marks, missingFreqsDb, now, pipelines, pipelines_holding, pipeline_cmds,
                    timing, issued >>

\* the fetch raised: the handler ends with an error response
FetchFail(r) ==
    /\ req[r].pc = "fetching"
    /\ response' = Uncaught(req[r], 0, 500)
    /\ req' = [req EXCEPT ![r] = IdleReq]
    /\ pipe' = Destroy(pipe, pipelines, pipelines_holding, req')
    /\ parsed' = << >>
    /\ UNCHANGED << cfg, marks, missingFreqsDb, now, pipelines, pipelines_holding, pipeline_cmds,
                    useCount, timing, issued >>

\* pipeline.translate: take the pipe's lock, write the input and the sentinel
LockAndWrite(r) ==
    LET p == req[r].pipeline IN
    /\ req[r].pc = "waitlock"
    /\ pipe[p].state = "Ready"
    /\ LockFree(pipe, p)
    /\ pipe' = [pipe EXCEPT ![p].lock = r,
                            ![p].stream = Append(@, Translation(pipe[p].cmds, req[r].q))]
    /\ req' = [req EXCEPT ![r].pc = "reading"]
    /\ response' = NoResponse
    /\ parsed' = << >>
    /\ UNCHANGED << cfg, marks, missingFreqsDb, now, pipelines, pipelines_holding, pipeline_cmds,
                    useCount, timing, issued >>

\* pipeline.translate: the output up to the first sentinel has been read; the
\* lock and the pipeline are released and translate returns
ReadDone(r) ==
    LET p == req[r].pipeline IN
    /\ req[r].pc = "reading"
    /\ pipe[p].state = "Ready"
    /\ pipe[p].stream # <<>>
    /\ pipe' = [pipe EXCEPT ![p].stream = Tail(@), ![p].lock = 0,
                            ![p].users = @ - 1, ![p].useCount = @ + 1]
    /\ req' = [req EXCEPT ![r].translated = Head(pipe[p].stream),
                          ![r].pc = "responding"]
    /\ response' = NoResponse
    /\ parsed' = << >>
    /\ UNCHANGED << cfg, marks, missingFreqsDb, now, pipelines, pipelines_holding, pipeline_cmds,
                    useCount, timing, issued >>

\* pipeline.translate: the bytes read are not valid UTF-8
DecodeFail(r) ==
    LET p == req[r].pipeline IN
    /\ req[r].pc = "reading"
    /\ pipe[p].state = "Ready"
    /\ pipe[p].stream # <<>>
    /\ response' = Uncaught(req[r], 0, ErrorStatus("DecodeError"))
    /\ req' = [req EXCEPT ![r] = IdleReq]
    /\ pipe' = Destroy([pipe EXCEPT ![p].stream = Tail(@), ![p].lock = 0,
                                    ![p].users = @ - 1],
                       pipelines, pipelines_holding, req')
    /\ parsed' = << >>
    /\ UNCHANGED << cfg, marks, missingFreqsDb, now, pipelines, pipelines_holding, pipeline_cmds,
                    useCount, timing, issued >>

\* pipeline.translate raises PipeBroken or DeadlineExceeded: the pipe is marked
\* Dead, its streams are lost with what was in them, and the exception leaves
\* translateAndRespond and get
TranslateFail(r, err) ==
    LET p == req[r].pipeline IN
    /\ req[r].pc \in {"waitlock", "reading"}
    /\ pipe[p].state = "Dead" => err = "PipeBroken"
    /\ response' = Uncaught(req[r], 0, ErrorStatus(err))
    /\ req' = [req EXCEPT ![r] = IdleReq]
    /\ pipe' = Destroy([pipe EXCEPT ![p].state = "Dead",
                                    ![p].stream = <<>>,
                                    ![p].lock = IF @ = r THEN 0 ELSE @,
                                    ![p].users = @ - 1],
                       pipelines, pipelines_holding, req')
    /\ parsed' = << >>
    /\ UNCHANGED << cfg, marks, missingFreqsDb, now, pipelines, pipelines_holding, pipeline_cmds,
                    useCount, timing, issued >>

\* translateAndRespond after its yield: logAfterTranslation, sendResponse,
\* cleanPairs.  The request's markUnknown is at its default 'yes' and no
\* missing-token store is configured, so maybeStripMarks returns the text as
\* it is and notes nothing (SpecMarks covers the other cases)
Respond(r) ==
    /\ req[r].pc = "responding"
    /\ timing' = logAfterTranslation(timing, req[r].before, Len(req[r].q), 200)
    /\ response' = Reply(req[r], 200, req[r].translated)
    /\ req' = [req EXCEPT ![r] = IdleReq]
    /\ LET c == cleanPairs(pipelines, pipelines_holding, pipe)
       IN  /\ pipelines' = c.pipelines
           /\ pipelines_holding' = c.holding
           /\ pipe' = Destroy(pipe, c.pipelines, c.holding, req')
    /\ parsed' = << >>
    /\ UNCHANGED << cfg, marks, missingFreqsDb, now, pipeline_cmds, useCount, issued >>

(* ----------------- TranslateDocHandler, PipeDebugHandler --------------- *)
\* l1, l2 after the try block that opens TranslateDocHandler.get and
\* PipeDebugHandler.get: the two codes, or unbound when unpacking the split
\* langpair raised ValueError (the except branch assigns nothing)
Unbound == << >>

UnpackCodes(langpair) ==
    LET parts == SplitBar(langpair) IN
    IF Len(parts) = 2
    THEN << toAlpha3Code(parts[1]), toAlpha3Code(parts[2]) >>
    ELSE Unbound

\* the upload of a /translateDoc request: no file, a file of an allowed type,
\* a file of another type, a file over 32E6 bytes
DocFiles == { "none", "text/plain", "image/png", "large" }

\* the keys of allowedMimeTypes the uploads above can have
AllowedMimeTypes == { "text/plain" }

\* translation.translateDoc(file, format, mode path, markUnknown)
translateDoc(file, path) == [ doc |-> file, mode |-> path ]

\* TranslateDocHandler.get.  After send_error(400) for a langpair that does
\* not unpack the method goes on: it reads markUnknown, builds
\* allowedMimeTypes and then evaluates '%s-%s' % (l1, l2) with l1 unbound,
\* which raises UnboundLocalError out of get
TranslateDocGet(langpair, file, outcome) ==
    /\ issued < MaxIssued
    /\ issued' = issued + 1
    /\ LET codes == UnpackCodes(langpair)
           R     == [IdleReq EXCEPT !.langpair = langpair]
       IN  response' =
             IF codes = Unbound THEN Uncaught(R, 400, 500)
             ELSE IF PairName(codes[1], codes[2]) \notin DOMAIN pairs
             THEN ErrorReply(R, 400)
             ELSE IF file = "none" THEN Uncaught(R, 0, 500)
             ELSE IF file = "large" THEN ErrorReply(R, 413)
             ELSE IF file \notin AllowedMimeTypes THEN ErrorReply(R, 400)
             ELSE IF outcome = "ok"
             THEN Reply(R, 200,
                        translateDoc(file, pairs[PairName(codes[1], codes[2])]))
             ELSE Uncaught(R, 0, 500)
    /\ parsed' = << >>
    /\ UNCHANGED << cfg, marks, missingFreqsDb, now, pipelines, pipelines_holding,
                    pipeline_cmds, useCount, timing, pipe, req >>

\* translation.translatePipeline(toTranslate, commands): the output of every
\* stage
translatePipeline(text, cmds) == [ output |-> Translation(cmds, text), pipeline |-> cmds ]

\* PipeDebugHandler.get up to its yield.  After send_error(400) for a langpair
\* that does not unpack the method goes on to self.pairs['%s-%s' % (l1, l2)],
\* where l1 is unbound: UnboundLocalError leaves get.  A pair that is not
\* installed raises KeyError there; the mode file is parsed on every request
PipeDebugGet(r, langpair, q, outcome) ==
    /\ Free(r)
    /\ issued < MaxIssued
    /\ issued' = issued + 1
    /\ LET codes == UnpackCodes(langpair)
           R     == [IdleReq EXCEPT !.langpair = langpair, !.q = q]
       IN  IF codes = Unbound
           THEN /\ response' = Uncaught(R, 400, 500)
                /\ parsed' = << >>
                /\ UNCHANGED req
           ELSE IF PairName(codes[1], codes[2]) \notin DOMAIN pairs
           THEN /\ response' = Uncaught(R, 0, 500)
                /\ parsed' = << >>
                /\ UNCHANGED req
           ELSE /\ parsed' = << pairs[PairName(codes[1], codes[2])] >>
                /\ IF outcome = "ParseError"
                   THEN /\ response' = ErrorReply(R, 500)
                        /\ UNCHANGED req
                   ELSE /\ response' = NoResponse
                        /\ req' = [req EXCEPT ![r] =
                                     [R EXCEPT !.pc = "debugging", !.pair = codes]]
    /\ UNCHANGED << cfg, marks, missingFreqsDb, now, pipelines, pipelines_holding,
                    pipeline_cmds, useCount, timing, pipe >>

\* translatePipeline returned: the handler's status is still 200 and the
\* outputs are sent
PipeDebugDone(r) ==
    /\ req[r].pc = "debugging"
    /\ response' =
         Reply(req[r], 200,
               translatePipeline(req[r].q,
                                 parseModeFile(pairs[PairName(req[r].pair[1],
                                                              req[r].pair[2])])))
    /\ req' = [req EXCEPT ![r] = IdleReq]
    /\ parsed' = << >>
    /\ UNCHANGED << cfg, marks, missingFreqsDb, now, pipelines, pipelines_holding,
                    pipeline_cmds, useCount, timing, pipe, issued >>

\* translatePipeline raised
PipeDebugFail(r) ==
    /\ req[r].pc = "debugging"
    /\ response' = Uncaught(req[r], 0, 500)
    /\ req' = [req EXCEPT ![r] = IdleReq]
    /\ parsed' = << >>
    /\ UNCHANGED << cfg, marks, missingFreqsDb, now, pipelines, pipelines_holding,
                    pipeline_cmds, useCount, timing, pipe, issued >>

\* the requests to the two handlers that unpack the langpair themselves
OtherRequests(LPs, Ts) ==
    \/ \E langpair \in LPs, file \in DocFiles, outcome \in {"ok", "error"} :
          TranslateDocGet(langpair, file, outcome)
    \/ \E r \in Reqs, langpair \in LPs, q \in Ts, outcome \in {"ok", "ParseError"} :
          PipeDebugGet(r, langpair, q, outcome)
    \/ \E r \in Reqs : PipeDebugDone(r)
    \/ \E r \in Reqs : PipeDebugFail(r)

\* lst[start:] of Python for any integer start
PySliceFrom(lst, start) ==
    LET n  == Len(lst)
        st == IF start < 0 THEN (IF n + start < 0 THEN 0 ELSE n + start)
              ELSE (IF start > n THEN n ELSE start)
    IN  SubSeq(lst, st + 1, n)

\* sum(f(x) for x in lst)
RECURSIVE SumOver(_, _)
SumOver(lst, field) ==
    IF lst = << >> THEN 0
    ELSE (IF field = "time" THEN Head(lst)[2] - Head(lst)[1] ELSE Head(lst)[3])
         + SumOver(Tail(lst), field)

\* StatsHandler.get with requests=numRequests: the responseData it sends
\* (charsPerSec, the rounded quotient of totChars and totTimeSpent, and uptime
\* are left out)
StatsResponse(numRequests) ==
    LET periodStats == PySliceFrom(timing, -numRequests) IN
    [ status         |-> 200,
      langpair       |-> << >>,
      q              |-> NoText,
      translatedText |-> << >>,
      raised         |-> FALSE,
      requests       |-> numRequests,
      useCount       |-> useCount,
      runningPipes   |-> [pair \in { x \in DOMAIN pipelines : pipelines[x] # << >> }
                             |-> Len(pipelines[pair])],
      holdingPipes   |-> BagCardinality(pipelines_holding),
      periodStats    |-> [ totChars        |-> SumOver(periodStats, "chars"),
                           totTimeSpent    |-> SumOver(periodStats, "time"),
                           requests        |-> Len(periodStats),
                           ageFirstRequest |-> IF periodStats # << >>
                                               THEN now - periodStats[1][1]
                                               ELSE 0 ] ]

\* GET /stats?requests=numRequests
StatsGet(numRequests) ==
    /\ response' = StatsResponse(numRequests)
    /\ parsed' = << >>
    /\ UNCHANGED << cfg, marks, missingFreqsDb, now, pipelines,
                    pipelines_holding, pipeline_cmds, useCount, timing, pipe,
                    req, issued >>

\* requests arriving, with their arguments drawn from LPs and Ts
Requests(LPs, Ts) ==
    \/ \E r \in Reqs, langpair \in LPs, q \in Ts : TranslateGet(r, langpair, q)
    \/ \E r \in Reqs, langpair \in LPs : TranslatePageGet(r, langpair)
    \/ \E r \in Reqs, text \in Ts : FetchDone(r, text)

\* the coroutines in flight resuming
Progress ==
    \/ \E r \in Reqs : FetchFail(r)
    \/ \E r \in Reqs : LockAndWrite(r)
    \/ \E r \in Reqs : ReadDone(r)
    \/ \E r \in Reqs : DecodeFail(r)
    \/ \E r \in Reqs, err \in {"PipeBroken", "DeadlineExceeded"} : TranslateFail(r, err)
    \/ \E r \in Reqs : Respond(r)

\* two installed pairs, malformed and unknown pairs; the clock stands still
Init == InitWith(Configs)

Next == Requests(LangPairs, Texts) \/ Progress

Spec == Init /\ [][Next]_vars

\* one pair, two texts, up to two pipes per pair; the clock stands still
InitOnePair == InitWith(OnePairConfigs)

NextOnePair == Requests(OnePair, TwoTexts) \/ Progress

SpecOnePair == InitOnePair /\ [][NextOnePair]_vars

\* one pair, one text, and the clock runs
NextClock == Requests(OnePair, Texts) \/ Progress \/ Tick

SpecClock == Init /\ [][NextClock]_vars

(* ------------------------------ properties ---------------------------- *)
\* one pair spelled in three ways, one text; the clock stands still
NextCodes == Requests(CodePairs, Texts) \/ Progress

SpecCodes == Init /\ [][NextCodes]_vars

\* one pair, one text, up to two pipes, a floor and an idle limit; the clock
\* runs
InitClean == InitWith(CleanConfigs)

NextClean == Requests(OnePair, Texts) \/ Progress \/ Tick

SpecClean == InitClean /\ [][NextClean]_vars

\* one pair, /translate requests whose translations all succeed, up to two
\* pipes, a floor and an idle limit; the clock runs
NextEvict ==
    \/ \E r \in Reqs, langpair \in OnePair, q \in Texts : TranslateGet(r, langpair, q)
    \/ \E r \in Reqs : LockAndWrite(r)
    \/ \E r \in Reqs : ReadDone(r)
    \/ \E r \in Reqs : Respond(r)
    \/ Tick

SpecEvict == InitClean /\ [][NextEvict]_vars

\* no handler is in flight
NoneInFlight == \A r \in Reqs : req[r].pc = "idle"

\* strictly sequential successful requests on one pair: a request arrives only
\* when no other is in flight, and every request gets its translation;
\* they come at any times
NextSeq ==
    \/ /\ NoneInFlight
       /\ response' = NoResponse
       /\ \/ \E r \in Reqs, langpair \in OnePair, q \in TwoTexts :
                TranslateGet(r, langpair, q)
          \/ \E r \in Reqs, langpair \in OnePair : TranslatePageGet(r, langpair)
    \/ \E r \in Reqs, text \in TwoTexts : FetchDone(r, text)
    \/ \E r \in Reqs : LockAndWrite(r)
    \/ \E r \in Reqs : ReadDone(r)
    \/ \E r \in Reqs : Respond(r)
    \/ Tick

SpecSeq == Init /\ [][NextSeq]_vars

\* maybeStripMarks on its own: the call made by translateAndRespond with a
\* translated text and a markUnknown argument drawn from small sets, with and
\* without a missing-token store
InitMarks ==
    /\ cfg \in Configs
    /\ now = 0
    /\ pipelines = EmptyMap
    /\ pipelines_holding = EmptyBag
    /\ pipeline_cmds = EmptyMap
    /\ parsed = << >>
    /\ useCount = EmptyMap
    /\ timing = << >>
    /\ pipe = << >>
    /\ req = [r \in Reqs |-> IdleReq]
    /\ response = NoResponse
    /\ issued = 0
    /\ missingFreqsDb \in { NoDb, EmptyDb }
    /\ marks \in [ markUnknown : MarkArgs,
                   pair        : { getPairOrError(lp) : lp \in OnePair },
                   translated  : MarkTexts,
                   result      : { << >> },
                   done        : { FALSE } ]

\* translateAndRespond: markUnknown = markUnknown in [...], then
\* self.maybeStripMarks(markUnknown, pair, translated), which first notes the
\* unknown tokens
MaybeStripMarks ==
    /\ ~marks.done
    /\ marks.pair # NoPair
    /\ missingFreqsDb' = noteUnknownTokens(missingFreqsDb,
                                           PairName(marks.pair[1], marks.pair[2]),
                                           marks.translated)
    /\ marks' = [marks EXCEPT
                   !.result = maybeStripMarks(markUnknownFlag(marks.markUnknown),
                                              marks.pair, marks.translated),
                   !.done = TRUE]
    /\ parsed' = << >>
    /\ UNCHANGED << cfg, now, pipelines, pipelines_holding, pipeline_cmds,
                    useCount, timing, pipe, req, response, issued >>

NextMarks == MaybeStripMarks

SpecMarks == InitMarks /\ [][NextMarks]_vars

\* one pair, texts of two lengths, the clock runs, and /stats is asked for at
\* any moment
NextStats ==
    \/ Requests(OnePair, StatTexts)
    \/ Progress
    \/ Tick
    \/ \E numRequests \in StatArgs : StatsGet(numRequests)

SpecStats == Init /\ [][NextStats]_vars

\* the IOLoop runs every continuation that is ready, and a Ready pipe that was
\* given input answers: each handler's own steps are taken when they stay
\* possible.  No request has to arrive, and no failure has to happen
Fairness ==
    \A r \in Reqs : /\ WF_vars(LockAndWrite(r))
                    /\ WF_vars(ReadDone(r))
                    /\ WF_vars(Respond(r))

SpecFair == Init /\ [][Next]_vars /\ Fairness

\* the five handlers that take a langpair, with well-formed, malformed and
\* unknown pairs
NextHandlers == Requests(LangPairs, Texts) \/ Progress \/ OtherRequests(LangPairs, Texts)

SpecHandlers == Init /\ [][NextHandlers]_vars

\* the pool of a pair, empty when the pair has no entry
Pool(PL, pair) == Get(PL, pair, <<>>)

\* pipe p is in some pair's pool
InPool(PL, p) ==
    \E pair \in DOMAIN PL : \E i \in 1..Len(PL[pair]) : PL[pair][i] = p

\* the pipe objects that exist
Alive == { p \in DOMAIN pipe : pipe[p].state # "Gone" }

\* handlers inside pipeline.translate
Translating == { r \in Reqs : req[r].pc \in {"waitlock", "reading"} }

\* C1 (as claimed): for every pair the number of pipelines in the pair's pool
\* is at most max_pipes_per_pair
Claim_C1 ==
    \A pair \in DOMAIN pipelines : Len(pipelines[pair]) <= max_pipes_per_pair

\* the output the pair's mode gives for a text
ExpectedOutput(pair, text) ==
    Translation(parseModeFile(pairs[PairName(pair[1], pair[2])]), text)

\* C2: every request receives the output that corresponds to its own input,
\* never the output of another request, under every interleaving of requests
\* on the same pair
Theorem_C2 ==
    /\ \A r \in Reqs : req[r].pc = "responding" =>
          req[r].translated = ExpectedOutput(req[r].pair, req[r].q)
    /\ response.status = 200 =>
          response.translatedText =
              ExpectedOutput(getPairOrError(response.langpair), response.q)

\* a request has been answered while another request with a different text is
\* inside translate on the same pair
Witness_C2 ==
    /\ response.status = 200
    /\ \E r \in Translating :
          /\ req[r].langpair = response.langpair
          /\ req[r].q # response.q

\* C3 (as claimed): users of every pipeline is non-negative and equals the
\* number of requests that obtained the pipeline from getPipeline and have not
\* yet finished with it
Claim_C3 ==
    \A p \in Alive :
        /\ pipe[p].users >= 0
        /\ pipe[p].users =
              Cardinality({ r \in Reqs : /\ req[r].pipeline = p
                                         /\ req[r].pc \in {"fetching", "waitlock",
                                                           "reading"} })

\* C4: when the request that took a pipeline's count of served translations
\* above restart_pipe_after has finished, the pipeline is in no pool
Theorem_C4 ==
    [][ \A r \in Reqs :
          ( /\ req[r].pc = "responding"
            /\ req'[r].pc = "idle"
            /\ pipe[req[r].pipeline].useCount > restart_pipe_after )
          => ~InPool(pipelines', req[r].pipeline) ]_vars

\* a request has just been answered and a pipe that served more than
\* restart_pipe_after translations waits in the holding area, out of the pools
Witness_C4 ==
    /\ response.status = 200
    /\ \E p \in Alive :
          /\ pipe[p].useCount > restart_pipe_after
          /\ BagIn(p, pipelines_holding)
          /\ ~InPool(pipelines, p)

\* C5: the pipeline getPipeline hands to a request is, when it is selected, in
\* the pool of the requested pair and not in the holding area
Theorem_C5 ==
    [][ \A r \in Reqs :
          ( req[r].pc = "idle" /\ req'[r].pc # "idle" )
          => /\ \E i \in 1..Len(Pool(pipelines', req'[r].pair)) :
                   pipelines'[req'[r].pair][i] = req'[r].pipeline
             /\ ~BagIn(req'[r].pipeline, pipelines_holding') ]_vars

\* a request holds a pipe of the pool that was started while an older pipe was
\* already waiting in the holding area
Witness_C5 ==
    \E r \in Reqs :
        /\ req[r].pc # "idle"
        /\ InPool(pipelines, req[r].pipeline)
        /\ \E h \in BagToSet(pipelines_holding) : h < req[r].pipeline

\* C6 (as claimed): a pipeline whose translation failed with PipeBroken or
\* DeadlineExceeded has left its pool, so every pipeline in a pool is Ready
Claim_C6 ==
    \A pair \in DOMAIN pipelines : \A i \in 1..Len(pipelines[pair]) :
        pipe[pipelines[pair][i]].state = "Ready"

\* C7 (as claimed): no translate request is still pending once its per-request
\* timeout has passed
Claim_C7 ==
    \A r \in Translating : now - req[r].before <= timeout

\* the langpair of the request received in the step just taken
\* (meaningful in a step that increases issued)
Arrived(R1, R2, resp) ==
    IF resp # NoResponse THEN resp.langpair
    ELSE LET r == CHOOSE x \in Reqs : R1[x].pc = "idle" /\ R2[x].pc # "idle"
         IN  R2[r].langpair

\* C8: a request for an installed pair is always given a pipeline of the pool;
\* the only way it ends without one is a failed start of a pipeline, which is
\* not attempted when the pool holds max_pipes_per_pair pipes, however many
\* users they have
Theorem_C8 ==
    [][ issued' = issued + 1 =>
          LET pair == getPairOrError(Arrived(req, req', response'))
              pool == Pool(pipelines, pair)
          IN  pair # NoPair =>
                /\ \/ response'.status = 500
                   \/ \E r \in Reqs :
                        /\ req[r].pc = "idle"
                        /\ req'[r].pc # "idle"
                        /\ InPool(pipelines', req'[r].pipeline)
                /\ ( pool # <<>> /\ Len(pool) >= max_pipes_per_pair )
                      => response' = NoResponse ]_vars

\* the pool is full, every pipe in it has more than max_users_per_pipe users,
\* and the request that came last was given the head of the pool all the same
Witness_C8 ==
    \E pair \in DOMAIN pipelines :
        /\ pipelines[pair] # << >>
        /\ Len(pipelines[pair]) = max_pipes_per_pair
        /\ \A i \in 1..Len(pipelines[pair]) :
              pipe[pipelines[pair][i]].users > max_users_per_pipe
        /\ pipe[pipelines[pair][1]].users > max_users_per_pipe + 1

\* the count of a pair, 0 when the pair has no entry
UseCountOf(U, pair) == Get(U, pair, 0)

PairKeys == { getPairOrError(lp) : lp \in LangPairs } \ {NoPair}

\* C9: a request raises useCount of its own pair by exactly 1, once, when its
\* translation begins, and no other step and no other pair's request changes
\* that count: k requests on a pair raise it by exactly k
Theorem_C9 ==
    [][ \A pair \in PairKeys \cup DOMAIN useCount \cup DOMAIN useCount' :
          UseCountOf(useCount', pair) =
              UseCountOf(useCount, pair)
              + Cardinality({ r \in Reqs : /\ req[r].pc \in {"idle", "fetching"}
                                           /\ req'[r].pc = "waitlock"
                                           /\ req'[r].pair = pair }) ]_vars

\* two requests of one pair were in flight together, both translations
\* succeeded, and the pair's count is 2
Witness_C9 ==
    \E pair \in DOMAIN useCount :
        /\ useCount[pair] = 2
        /\ response.status = 200
        /\ getPairOrError(response.langpair) = pair
        /\ \E r \in Reqs : req[r].pc = "responding" /\ req[r].pair = pair

\* number of '|' in a langpair
BarCount(s) == Cardinality({ i \in 1..Len(s) : s[i] = "|" })

\* a langpair that is malformed, or names a pair that is not installed
BadLangpair(s) ==
    \/ BarCount(s) # 1
    \/ LET i  == CHOOSE j \in 1..Len(s) : s[j] = "|"
           l1 == toAlpha3Code(SubSeq(s, 1, i - 1))
           l2 == toAlpha3Code(SubSeq(s, i + 1, Len(s)))
       IN  PairName(l1, l2) \notin DOMAIN pairs

\* C10: a request with a malformed langpair or a pair that is not installed is
\* answered with 400 at once and leaves the pools, the holding area, the mode
\* cache, the pipelines, useCount and the timing samples as they were
Theorem_C10 ==
    /\ [][ ( /\ issued' = issued + 1
             /\ BadLangpair(Arrived(req, req', response')) )
           => /\ response'.status = 400
              /\ UNCHANGED << pipelines, pipelines_holding, pipeline_cmds,
                              useCount, timing, pipe, req >> ]_vars
    /\ [](\A r \in Reqs : req[r].pc # "idle" => ~BadLangpair(req[r].langpair))

\* a malformed request has just been answered with 400 while a pool holds a
\* pipe and a timing sample is stored
Witness_C10 ==
    /\ response.status = 400
    /\ BarCount(response.langpair) # 1
    /\ timing # << >>
    /\ \E pair \in DOMAIN pipelines : pipelines[pair] # << >>

\* a code that toAlpha3Code leaves as it is
Canonical(code) == toAlpha3Code(code) = code

\* the two codes a well-formed langpair names, in canonical form
CodesOf(s) ==
    LET i == CHOOSE j \in 1..Len(s) : s[j] = "|"
    IN  << toAlpha3Code(SubSeq(s, 1, i - 1)),
           toAlpha3Code(SubSeq(s, i + 1, Len(s))) >>

\* C11: every key of pipelines, pipeline_cmds and useCount is a pair of
\* canonical codes of an installed pair, and requests that name the same pair
\* with 2-letter and with 3-letter codes work on the same key
Theorem_C11 ==
    /\ \A k \in DOMAIN pipelines \cup DOMAIN pipeline_cmds \cup DOMAIN useCount :
          /\ Canonical(k[1]) /\ Canonical(k[2])
          /\ PairName(k[1], k[2]) \in DOMAIN pairs
    /\ \A r \in Reqs : req[r].pc # "idle" =>
          req[r].pair = CodesOf(req[r].langpair)
    /\ \A r1, r2 \in Reqs :
          ( /\ req[r1].pc # "idle" /\ req[r2].pc # "idle"
            /\ CodesOf(req[r1].langpair) = CodesOf(req[r2].langpair) )
          => req[r1].pair = req[r2].pair

\* a request that said en|es and one that said eng|spa are inside translate on
\* the same pipe, and the only pool entry and the only count are eng-spa's
Witness_C11 ==
    \E r1, r2 \in Translating :
        /\ req[r1].langpair = <<"e","n","|","e","s">>
        /\ req[r2].langpair = <<"e","n","g","|","s","p","a">>
        /\ req[r1].pipeline = req[r2].pipeline
        /\ DOMAIN pipelines = { << <<"e","n","g">>, <<"s","p","a">> >> }
        /\ DOMAIN pipeline_cmds = DOMAIN pipelines
        /\ useCount = ( << <<"e","n","g">>, <<"s","p","a">> >> :> 2 )

\* the smaller of two numbers
Min(a, b) == IF a <= b THEN a ELSE b

\* the step is the end of a translateAndRespond, where cleanPairs runs
CleanPairsStep ==
    \E r \in Reqs : req[r].pc = "responding" /\ req'[r].pc = "idle"

\* C12 (as claimed): a cleanPairs pass leaves in every pair's pool at least
\* min_pipes_per_pair pipes, or all the pipes the pool had if it had fewer
Claim_C12 ==
    [][ CleanPairsStep =>
          \A pair \in DOMAIN pipelines :
              Len(pipelines'[pair]) >=
                  Min(min_pipes_per_pair, Len(pipelines[pair])) ]_vars

\* the pair of the sequential requests
SeqPair == getPairOrError(CHOOSE lp \in OnePair : TRUE)

\* in a sequential run `issued` is the number of the request in flight, or of
\* the last request when none is in flight: requests 1 .. restart_pipe_after+1
\* are served by the first pipe, and request restart_pipe_after+2 by a pipe
\* that is not the first and has served nothing before
RotationAt ==
    \A r \in Reqs : req[r].pc # "idle" =>
        /\ issued <= restart_pipe_after + 1 => req[r].pipeline = 1
        /\ issued = restart_pipe_after + 2 =>
              /\ req[r].pipeline # 1
              /\ pipe[req[r].pipeline].useCount =
                    (IF req[r].pc = "responding" THEN 1 ELSE 0)

\* request restart_pipe_after+2 has completed
AfterRotation == issued = restart_pipe_after + 2 /\ NoneInFlight

\* C13 (as claimed): ... and after that request completes exactly one
\* pipeline is in the pair's pool
Claim_C13 ==
    /\ RotationAt
    /\ AfterRotation => Len(Pool(pipelines, SeqPair)) = 1

\* C13 (amended): under strictly sequential successful requests on one pair
\* with max_pipes_per_pair = 1 and min_pipes_per_pair = 0, request
\* restart_pipe_after+2 is served by a newly spawned pipeline different from
\* the first; after it completes the pool holds exactly that one pipeline when
\* restart_pipe_after >= 1, and is empty when restart_pipe_after = 0
Theorem_C13 ==
    /\ RotationAt
    /\ AfterRotation =>
          Len(Pool(pipelines, SeqPair)) = (IF restart_pipe_after >= 1 THEN 1 ELSE 0)

\* request restart_pipe_after+2 has just been answered and the second pipe is
\* the pool
Witness_C13 ==
    /\ AfterRotation
    /\ max_pipes_per_pair = 1 /\ min_pipes_per_pair = 0
    /\ restart_pipe_after >= 1
    /\ response.status = 200
    /\ pipelines[SeqPair] = << 2 >>

\* C14 (as claimed): after each append by logAfterTranslation, no sample left
\* in stats['timing'], other than the one just appended, has a start time
\* older than STAT_PERIOD_MAX_AGE
Claim_C14 ==
    [][ timing' # timing =>
          \A i \in 1..(Len(timing') - 1) :
              now' - timing'[i][1] <= STAT_PERIOD_MAX_AGE ]_vars

\* the characters the claim lists as not belonging to a token
ClaimedStops == { ".", ",", ";", ":", "\t", "*", " " }

\* position i holds the '*' of a token: a '*' followed by at least one
\* character that is none of the listed ones
MarkAt(s, i) ==
    /\ s[i] = "*"
    /\ i < Len(s)
    /\ s[i + 1] \notin ClaimedStops

\* s without the characters at the positions in `drop`
RECURSIVE Without(_, _, _)
Without(s, drop, i) ==
    IF i > Len(s) THEN << >>
    ELSE (IF i \in drop THEN << >> ELSE << s[i] >>) \o Without(s, drop, i + 1)

\* the token whose '*' is at position i, without the '*': the characters after
\* it up to the next listed character or the end of the text
TokenAt(s, i) ==
    LET stops == { k \in (i + 1)..Len(s) : s[k] \in ClaimedStops }
        last  == IF stops = {} THEN Len(s)
                 ELSE (CHOOSE k \in stops : \A m \in stops : k <= m) - 1
    IN  SubSeq(s, i + 1, last)

\* the tokens of s in the order of their positions, from position i on
RECURSIVE TokensFrom(_, _)
TokensFrom(s, i) ==
    IF i > Len(s) THEN << >>
    ELSE (IF MarkAt(s, i) THEN << TokenAt(s, i) >> ELSE << >>)
         \o TokensFrom(s, i + 1)

\* C15: with markUnknown one of 'yes', 'true', '1' the text comes back
\* unchanged; otherwise exactly the leading '*' of every token is removed; in
\* both cases a configured store is told every token once for each
\* occurrence, with the pair, and nothing is noted without a store
Theorem_C15 ==
    marks.done =>
        LET s      == marks.translated
            tokens == TokensFrom(s, 1)
            name   == PairName(marks.pair[1], marks.pair[2])
        IN  /\ marks.markUnknown \in { "yes", "true", "1" } => marks.result = s
            /\ marks.markUnknown \notin { "yes", "true", "1" } =>
                  marks.result =
                      Without(s, { i \in 1..Len(s) : MarkAt(s, i) }, 1)
            /\ missingFreqsDb.configured =>
                  missingFreqsDb.noted =
                      [k \in 1..Len(tokens) |-> << tokens[k], name >>]
            /\ ~missingFreqsDb.configured => missingFreqsDb.noted = << >>

\* a text with two tokens one right after the other has been stripped of its
\* two marks and both tokens have been noted
Witness_C15 ==
    /\ marks.done
    /\ marks.markUnknown = "no"
    /\ marks.translated = << "*", "a", "*", "a" >>
    /\ marks.result = << "a", "a" >>
    /\ Len(missingFreqsDb.noted) = 2

\* the last n elements of a list that has at least n
LastN(lst, n) == SubSeq(lst, Len(lst) - n + 1, Len(lst))

\* the response is one of /stats
IsStats == "periodStats" \in DOMAIN response

\* C16 (as claimed): for every integer N given as `requests`, the period
\* statistics cover the last min(N, number of stored samples) samples:
\* requests is that number, totChars and totTimeSpent are the sums over them
Claim_C16 ==
    IsStats =>
        LET n == Min(response.requests, Len(timing)) IN
        /\ response.periodStats.requests = n
        /\ response.periodStats.totChars = SumOver(LastN(timing, n), "chars")
        /\ response.periodStats.totTimeSpent = SumOver(LastN(timing, n), "time")

\* the same for the positive values of N only
PositiveStats ==
    (IsStats /\ response.requests > 0) => Claim_C16

\* map d2 has the keys and values of d1, but for `key`
SameButFor(d1, d2, key) ==
    /\ DOMAIN d1 \ {key} = DOMAIN d2 \ {key}
    /\ \A k \in DOMAIN d1 \ {key} : d2[k] = d1[k]

\* C17: when starting a pipeline (or parsing its mode file) fails, the request
\* ends with the error and no handler goes on with some other pipe, the
\* pair's pool has the pipes it had, no Pipeline object is made or changed,
\* and the pools, ParsedModes and holding area of the other pairs are as they
\* were; so the next request of the pair meets the same condition and tries
\* again
Theorem_C17 ==
    [][ ( issued' = issued + 1 /\ response'.status = 500 ) =>
          LET pair == getPairOrError(response'.langpair) IN
          /\ pair # NoPair
          /\ req' = req
          /\ Pool(pipelines', pair) = Pool(pipelines, pair)
          /\ pipe' = pipe
          /\ SameButFor(pipelines, pipelines', pair)
          /\ SameButFor(pipeline_cmds, pipeline_cmds', pair)
          /\ pipelines_holding' = pipelines_holding
          /\ UNCHANGED << useCount, timing >> ]_vars

\* a request of a pair that has never had a pipe has just ended with the
\* error of a failed start, while a request of another pair is inside
\* translate on that pair's pipe
Witness_C17 ==
    /\ response.status = 500
    /\ LET pair == getPairOrError(response.langpair) IN
       /\ pair \in DOMAIN pipelines
       /\ pipelines[pair] = << >>
       /\ UseCountOf(useCount, pair) = 0
       /\ \E r \in Translating :
             /\ req[r].pair # pair
             /\ pipelines[req[r].pair] = << req[r].pipeline >>

\* the handler that received a request in this step and was given a pipeline
Selected(r) == req[r].pc = "idle" /\ req'[r].pc # "idle"

\* C18 (as claimed): getPipeline creates a pipeline exactly when the pair's
\* pool is missing or empty, or the head of the pool has users >=
\* max_users_per_pipe and the pool holds fewer than max_pipes_per_pair pipes
\* (a request whose pipeline failed to start is not counted either way)
Claim_C18 ==
    [][ \A r \in Reqs : Selected(r) =>
          LET pool == Pool(pipelines, req'[r].pair) IN
          ( Len(pipe') = Len(pipe) + 1 )
          <=> \/ pool = << >>
              \/ /\ pipe[pool[1]].users >= max_users_per_pipe
                 /\ Len(pool) < max_pipes_per_pair ]_vars

\* users of a pipe when getPipeline returns it; a pipe made in this step has
\* none
UsersAtSelection(p) == IF p \in DOMAIN pipe THEN pipe[p].users ELSE 0

\* C19 (as claimed): the pipeline getPipeline returns has, when it is
\* selected, the least users of all the pipelines in the pair's pool
Claim_C19 ==
    [][ \A r \in Reqs : Selected(r) =>
          LET pool == pipelines'[req'[r].pair] IN
          \A i \in 1..Len(pool) :
              UsersAtSelection(req'[r].pipeline) <= UsersAtSelection(pool[i]) ]_vars

\* C20 (as claimed): a pipe in a pool has more than max_users_per_pipe users
\* only while the pool is below max_pipes_per_pair
Claim_C20 ==
    \A pair \in DOMAIN pipelines : \A i \in 1..Len(pipelines[pair]) :
        pipe[pipelines[pair][i]].users > max_users_per_pipe
        => Len(pipelines[pair]) < max_pipes_per_pair

\* pipe p has served more than restart_pipe_after translations
RestartDue(p) == pipe[p].useCount > restart_pipe_after

\* pipe p sits at index i (from 0) of its pool with i >= min_pipes_per_pair
\* and has been idle for more than a non-zero max_idle_secs
IdleDue(i, p) ==
    /\ i >= min_pipes_per_pair
    /\ max_idle_secs # 0
    /\ now - pipe[p].lastUsage > max_idle_secs

\* C21: a cleanPairs pass takes a pipe out of its pool if and only if its
\* useCount is above restart_pipe_after, or it is at an index >=
\* min_pipes_per_pair, max_idle_secs is not 0 and it was last used more than
\* max_idle_secs ago; so no pipe leaves for idleness when max_idle_secs = 0 or
\* when its index is below min_pipes_per_pair
Theorem_C21 ==
    [][ CleanPairsStep =>
          \A pair \in DOMAIN pipelines : \A k \in 1..Len(pipelines[pair]) :
              LET p == pipelines[pair][k] IN
              /\ ~InPool(pipelines', p) <=> (RestartDue(p) \/ IdleDue(k - 1, p))
              /\ ( (max_idle_secs = 0 \/ k - 1 < min_pipes_per_pair)
                   /\ ~RestartDue(p) ) => InPool(pipelines', p) ]_vars

\* a request has just been answered, and a pipe that is not due for a restart
\* has left its pool for idleness and waits, still used, in the holding area
Witness_C21 ==
    /\ response.status = 200
    /\ max_idle_secs # 0
    /\ \E p \in BagToSet(pipelines_holding) :
          /\ ~RestartDue(p)
          /\ ~InPool(pipelines, p)
          /\ now - pipe[p].lastUsage > max_idle_secs

\* the cleanPairs pass of this step took pipe p out of its pool
Evicted(p) == InPool(pipelines, p) /\ ~InPool(pipelines', p)

\* C22: right after a cleanPairs pass every pipe the pass took out of a pool
\* that still has users is in the holding area, every pipe in the holding area
\* has users, and every pipe without users that the pass took out of a pool or
\* found in the holding area is in no pool and not in the holding area
Theorem_C22 ==
    [][ CleanPairsStep =>
          /\ \A p \in Alive :
                /\ ( Evicted(p) /\ pipe[p].users > 0 )
                   => BagIn(p, pipelines_holding')
                /\ ( (Evicted(p) \/ BagIn(p, pipelines_holding))
                     /\ pipe[p].users = 0 )
                   => ( ~InPool(pipelines', p)
                        /\ ~BagIn(p, pipelines_holding') )
          /\ \A p \in BagToSet(pipelines_holding') : pipe[p].users > 0 ]_vars

\* a request has just been answered; one pipe taken out of a pool waits in the
\* holding area with a request still on it, and another pipe that had served
\* its requests has been dropped
Witness_C22 ==
    /\ response.status = 200
    /\ \E p \in BagToSet(pipelines_holding) :
          /\ pipe[p].users > 0
          /\ ~InPool(pipelines, p)
    /\ \E q \in DOMAIN pipe :
          /\ pipe[q].state = "Gone"
          /\ ~InPool(pipelines, q)
          /\ ~BagIn(q, pipelines_holding)

\* C23 (as claimed): a pipeline in the holding area whose users count has
\* reached zero is eventually removed from the holding area, whether or not a
\* further request arrives (stated for the runs in which more requests could
\* still arrive)
Claim_C23 ==
    \A p \in 1..MaxIssued :
        ( /\ p \in DOMAIN pipe
          /\ BagIn(p, pipelines_holding)
          /\ pipe[p].users = 0 )
        ~> ( ~BagIn(p, pipelines_holding) \/ issued = MaxIssued )

\* C24: a translation is answered in the same step in which its handler ends
\* with a cleanPairs pass: the response is out, no other request has moved in
\* between, and the pass has taken the pipes that were due out of the pools
\* of all pairs, not only of the pair that was translated
Theorem_C24 ==
    [][ /\ response'.status = 200 => CleanPairsStep
        /\ \A r \in Reqs :
              ( req[r].pc = "responding" /\ req'[r].pc = "idle" )
              => /\ response'.status = 200
                 /\ \A s \in Reqs \ {r} : req'[s] = req[s]
                 /\ \A pair \in DOMAIN pipelines :
                       \A k \in 1..Len(pipelines[pair]) :
                           LET p == pipelines[pair][k] IN
                           ( RestartDue(p) \/ IdleDue(k - 1, p) )
                           => ~InPool(pipelines', p) ]_vars

\* a request for one pair has just been answered, and the pipe of a request
\* for another pair, which had its translation and waits to answer, has been
\* taken out of its pool by that pass
Witness_C24 ==
    /\ response.status = 200
    /\ \E s \in Reqs :
          /\ req[s].pc = "responding"
          /\ req[s].pair # getPairOrError(response.langpair)
          /\ RestartDue(req[s].pipeline)
          /\ ~InPool(pipelines, req[s].pipeline)

\* C25 (as claimed): useCount and the timing samples change only in the step
\* of a request that follows the return of its translation (so a request
\* whose translation fails leaves both as they were)
Claim_C25 ==
    [][ ( useCount' # useCount \/ timing' # timing ) => CleanPairsStep ]_vars

\* the mode file of a pair
ModePath(pair) == pairs[PairName(pair[1], pair[2])]

\* the pipelines made in this step
Started == DOMAIN pipe' \ DOMAIN pipe

InSection(p) == { r \in Reqs : req[r].pc = "reading" /\ req[r].pipeline = p }

\* C27: on one pipeline the write of a request's input and sentinel and the
\* read of its output are one critical section: at most one request is between
\* its write and the end of its read, it holds the pipe's lock, and the only
\* output waiting to be read is its own, so outputs are read in the order in
\* which the requests entered
Theorem_C27 ==
    \A p \in Alive :
        /\ Cardinality(InSection(p)) <= 1
        /\ \A r \in InSection(p) :
              /\ pipe[p].lock = r
              /\ pipe[p].state = "Ready"
                 => pipe[p].stream = << Translation(pipe[p].cmds, req[r].q) >>
        /\ InSection(p) = {} => pipe[p].stream = << >>

\* one request is between its write and its read on a pipe while another
\* request with another text waits for the lock of the same pipe
Witness_C27 ==
    \E r, s \in Reqs :
        /\ req[r].pc = "reading"
        /\ req[s].pc = "waitlock"
        /\ req[s].pipeline = req[r].pipeline
        /\ req[s].q # req[r].q
        /\ pipe[req[r].pipeline].state = "Ready"

\* C28 (as claimed): in each of the handlers that take a langpair a malformed
\* pair code gives one 400 response and the handler ends there: it returns
\* without running into any later statement, looks up no pair, parses no mode
\* and touches no pipeline
Claim_C28 ==
    [][ ( /\ issued' = issued + 1
          /\ BarCount(Arrived(req, req', response')) # 1 )
        => /\ response'.status = 400
           /\ ~response'.raised
           /\ parsed' = << >>
           /\ UNCHANGED << pipelines, pipelines_holding, pipeline_cmds, pipe,
                           req, useCount >> ]_vars

\* C29 (as claimed): while a request that got a pipeline from getPipeline has
\* not finished translating on it (a /translatePage request that waits for its
\* fetch included), the pipeline is in its pool or in the holding area
Claim_C29 ==
    \A r \in Reqs :
        req[r].pc \in {"fetching", "waitlock", "reading"}
        => \/ InPool(pipelines, req[r].pipeline)
           \/ BagIn(req[r].pipeline, pipelines_holding)

\* the pipes of a pair that wait in the holding area
HeldOf(pair) ==
    { p \in BagToSet(pipelines_holding) :
        pipe[p].cmds = parseModeFile(ModePath(pair)) }

\* C30 (as claimed): the pipelines of a pair that were started and are not yet
\* shut down, those in its pool together with those in the holding area, are
\* at most max_pipes_per_pair
Claim_C30 ==
    \A pair \in DOMAIN pipelines :
        Len(pipelines[pair]) + Cardinality(HeldOf(pair)) <= max_pipes_per_pair

\* how often pipe p occurs in the pool of `pair`
TimesInPool(pair, p) ==
    Cardinality({ i \in 1..Len(pipelines[pair]) : pipelines[pair][i] = p })

\* C31: no pipeline is in a pool and in the holding area at once, none is in
\* the pools of two pairs, and none occurs more than once in a pool or in the
\* holding area
Theorem_C31 ==
    \A p \in DOMAIN pipe :
        /\ ~( InPool(pipelines, p) /\ BagIn(p, pipelines_holding) )
        /\ \A a, b \in DOMAIN pipelines :
              ( TimesInPool(a, p) > 0 /\ TimesInPool(b, p) > 0 ) => a = b
        /\ \A a \in DOMAIN pipelines : TimesInPool(a, p) <= 1
        /\ CopiesIn(p, pipelines_holding) <= 1

\* one pipe waits in the holding area, exactly once, with a request still on
\* it, and the pool of its pair holds only the pipe started in its place
Witness_C31 ==
    /\ BagCardinality(pipelines_holding) = 1
    /\ \E p \in BagToSet(pipelines_holding) : \E pair \in DOMAIN pipelines :
          /\ pipe[p].users > 0
          /\ pipe[p].cmds = parseModeFile(ModePath(pair))
          /\ Len(pipelines[pair]) = 1
          /\ pipelines[pair][1] # p

\* the settings of the behaviours that watch which pipe a spawning getPipeline
\* returns: up to two pipes per pair, -u -1 or 0 (the command line takes any
\* int for --max-users-per-pipe)
SpawnConfigs ==
    [ max_pipes_per_pair  : {2},
      min_pipes_per_pair  : {0},
      max_users_per_pipe  : {-1, 0},
      max_idle_secs       : {0},
      restart_pipe_after  : {1},
      timeout             : {1},
      STAT_PERIOD_MAX_AGE : {1} ]

\* as InitWith, with the clock past the epoch: a pipeline that was used has a
\* lastUsage after the 0 a new pipeline starts with
InitSpawn ==
    /\ cfg \in SpawnConfigs
    /\ now = 1
    /\ pipelines = EmptyMap
    /\ pipelines_holding = EmptyBag
    /\ pipeline_cmds = EmptyMap
    /\ parsed = << >>
    /\ useCount = EmptyMap
    /\ timing = << >>
    /\ pipe = << >>
    /\ req = [r \in Reqs |-> IdleReq]
    /\ response = NoResponse
    /\ issued = 0
    /\ missingFreqsDb = NoDb
    /\ marks = NoCall

\* one pair, one text, up to two pipes; the clock stands still
NextSpawn == Requests(OnePair, Texts) \/ Progress

SpecSpawn == InitSpawn /\ [][NextSpawn]_vars

\* C32 (as claimed): when getPipeline starts a pipeline although the pool is
\* not empty, that is because its head is over max_users_per_pipe, the
\* pipeline the request is given is the one just started
Claim_C32 ==
    [][ \A r \in Reqs :
          ( /\ Selected(r)
            /\ Started # {}
            /\ Pool(pipelines, req'[r].pair) # << >> )
          => req'[r].pipeline \in Started ]_vars
====
